---- MODULE Spec2Model ----
(***************************************************************************)
(* Model of src/src/main.py (centerline "metes and bounds" descriptions).  *)
(*                                                                         *)
(* Files are modelled at the level the csv module and text-mode I/O work   *)
(* at: the summary target is a sequence of CSV records (each a sequence of *)
(* field strings, each record ended by its line terminator, as csv.writer  *)
(* leaves it), a bearings file is a sequence of lines, each with the       *)
(* characters that end it, the disclaimer file is one text.  A Python dict *)
(* is a sequence of [key, value] entries in insertion order with unique    *)
(* keys.  The directory of the summary target exists; the bearings folder  *)
(* may be missing.  Strings are ASCII: the degree sign U+00B0 of the        *)
(* bearings and coordinates is written ^.                                  *)
(***************************************************************************)
EXTENDS Integers, Sequences, FiniteSets, TLC

VARIABLES
    summary,          \* the survey123 CSV target: [exists, rows]
    folder_exists,    \* whether the bearings folder exists
    linesep,          \* os.linesep of the platform the program runs on
    bearings_files,   \* unique_id -> [exists, lines] inside the bearings folder
    disclaimer_file,  \* disclaimer.txt inside the bearings folder: [exists, text]
    calls,            \* history: the save_description_to calls made so far
    summary0,         \* history: the summary target before the first call
    edits,            \* history: the changes other programs made to the target
    probe,            \* the last csv_has_header call made on its own
    serialized,       \* whether the callers serialize their calls on the target
    pc,               \* per caller: the position inside save_description_to
    frame,            \* per caller: the arguments and locals of its call
    calc              \* the last call of a pure function: arguments, locals, result

fileVars == <<summary, folder_exists, linesep, bearings_files, disclaimer_file>>
procVars == <<serialized, pc, frame>>
vars == <<summary, folder_exists, linesep, bearings_files, disclaimer_file,
          calls, summary0, edits, probe, serialized, pc, frame, calc>>

----------------------------------------------------------------------------
(* Bounds *)

MaxCalls == 3
NumCallers == 2

----------------------------------------------------------------------------
(* Sequences and strings *)

Range(s) == {s[i] : i \in DOMAIN s}

RECURSIVE JoinStr(_, _)
\* sep.join(parts)
JoinStr(parts, sep) ==
    IF parts = <<>> THEN ""
    ELSE IF Len(parts) = 1 THEN parts[1]
    ELSE parts[1] \o sep \o JoinStr(Tail(parts), sep)

RECURSIVE sorted(_)
\* sorted(S) for a set S of integers: ascending, one element per member
sorted(S) ==
    IF S = {} THEN <<>>
    ELSE LET m == CHOOSE x \in S : \A y \in S : x <= y
         IN  <<m>> \o sorted(S \ {m})

\* dict[key] = value: an existing key keeps its position and gets the new
\* value, a new key is appended
DictSet(d, k, v) ==
    IF \E i \in DOMAIN d : d[i].key = k
    THEN [i \in DOMAIN d |-> IF d[i].key = k THEN [key |-> k, value |-> v] ELSE d[i]]
    ELSE Append(d, [key |-> k, value |-> v])

----------------------------------------------------------------------------
(* format_traversal *)

\* as MeridianName, with the code the docstring's example gives for Uintah
MeridianName_Docstring(base_meridian) ==
    IF base_meridian = "26" THEN "Salt Lake Base and Meridian"
    ELSE IF base_meridian = "27" THEN "Uintah Special Meridian"
    ELSE "Unknown Meridian"

\* the if/elif/else on base_meridian
MeridianName(base_meridian) ==
    IF base_meridian = "26" THEN "Salt Lake Base and Meridian"
    ELSE IF base_meridian = "30" THEN "Uintah Special Meridian"
    ELSE "Unknown Meridian"

RECURSIVE FormatEntries_AsGiven(_, _)
\* as FormatEntries, without sorted(set(sections))
FormatEntries_AsGiven(items, formatted) ==
    IF items = <<>> THEN formatted
    ELSE LET key == items[1].key
             display == MeridianName(key.base_meridian) \o " " \o key.township_range
         IN  FormatEntries_AsGiven(Tail(items), DictSet(formatted, display, items[1].value))

RECURSIVE FormatEntries(_, _)
\* the body of the for loop of format_traversal, entry by entry.  A raw key
\* "{base_meridian}-{township_range}" is held as the pair key.split("-")
\* yields.
FormatEntries(items, formatted) ==
    IF items = <<>> THEN formatted
    ELSE LET key == items[1].key
             unique_sections == sorted(Range(items[1].value))
             display == MeridianName(key.base_meridian) \o " " \o key.township_range
         IN  FormatEntries(Tail(items), DictSet(formatted, display, unique_sections))

format_traversal(traversal_dict) == FormatEntries(traversal_dict, <<>>)

----------------------------------------------------------------------------
(* get_disclaimer *)

\* the fixed text, here by its first and its last words
get_disclaimer == "Disclaimer ... should consult an attorney or licensed surveyor, or both."

----------------------------------------------------------------------------
(* csv_has_header *)

\* as csv_has_header, with a csv.DictReader in place of csv.reader: the
\* first row is taken for the field names and the row after it is compared
csv_has_header_DictReader(csv_file, expected_fieldnames) ==
    IF ~csv_file.exists THEN FALSE
    ELSE IF Len(csv_file.rows) < 2 THEN FALSE
    ELSE csv_file.rows[2] = expected_fieldnames

\* as csv_has_header, comparing the names without their order
csv_has_header_AnyOrder(csv_file, expected_fieldnames) ==
    IF ~csv_file.exists THEN FALSE
    ELSE IF csv_file.rows = <<>> THEN FALSE
    ELSE Range(csv_file.rows[1]) = Range(expected_fieldnames)

\* try: open, first_row = next(csv.reader(rf)), return first_row == expected
\* except (StopIteration, FileNotFoundError): return False
csv_has_header(csv_file, expected_fieldnames) ==
    IF ~csv_file.exists THEN FALSE                  \* FileNotFoundError
    ELSE IF csv_file.rows = <<>> THEN FALSE         \* StopIteration
    ELSE csv_file.rows[1] = expected_fieldnames

----------------------------------------------------------------------------
(* save_description_to *)

fieldnames == <<"id", "starting", "ending", "traversal">>

\* description['starting']['lat'] on a value that is not a dict raises
IsDict(v) == v.kind = "dict"

CoordinateText(c) == "Latitude: " \o c.lat \o " and Longitude: " \o c.lon

RECURSIVE SectionStrs(_)
SectionStrs(sections) ==
    IF sections = <<>> THEN <<>>
    ELSE <<ToString(sections[1])>> \o SectionStrs(Tail(sections))

RECURSIVE TraversalLines(_)
TraversalLines(formatted_traversal) ==
    IF formatted_traversal = <<>> THEN <<>>
    ELSE LET sections_text == JoinStr(SectionStrs(formatted_traversal[1].value), ", ")
         IN  <<formatted_traversal[1].key \o ": Sections " \o sections_text>>
             \o TraversalLines(Tail(formatted_traversal))

\* as TraversalText, the segments joined by a comma
TraversalText_Comma(description) ==
    JoinStr(TraversalLines(format_traversal(description.traversal)), ", ")

TraversalText(description) ==
    JoinStr(TraversalLines(format_traversal(description.traversal)), " | ")

\* the dict handed to writer.writerow, in fieldnames order
DataRow(description, unique_id) ==
    <<unique_id, CoordinateText(description.starting),
      CoordinateText(description.ending), TraversalText(description)>>

\* the records one call writes through the DictWriter
RowsWritten(needs_header, description, unique_id) ==
    (IF needs_header THEN <<fieldnames>> ELSE <<>>) \o <<DataRow(description, unique_id)>>

\* as OpenAppend, with MODE_WRITE: the file is truncated
OpenAppend_Truncating(file) == [exists |-> TRUE, rows |-> <<>>]

\* csv_path.open(MODE_APPEND): creates a missing file, keeps what is there
OpenAppend(file) == [exists |-> TRUE, rows |-> IF file.exists THEN file.rows ELSE <<>>]

AppendRows(file, rows) == [OpenAppend(file) EXCEPT !.rows = @ \o rows]

\* the lines written to "{unique_id}_bearings.txt"
RECURSIVE NumberedFrom(_, _)
NumberedFrom(bearings, i) ==
    IF bearings = <<>> THEN <<>>
    ELSE <<ToString(i) \o ". " \o bearings[1]>> \o NumberedFrom(Tail(bearings), i + 1)

\* os.linesep: "\n" on POSIX, "\r\n" on Windows
LineSeps == {"\n", "\r\n"}

\* what a file opened in text mode with no newline argument holds for the
\* characters of os.linesep written to it: every "\n" written becomes
\* os.linesep, every other character is kept
TextModeWrite(written) ==
    IF written = "\n" THEN linesep
    ELSE IF written = "\r\n" THEN "\r" \o linesep
    ELSE written

\* the lines of the file: the text of each and the characters that end it
BearingLines(description) ==
    LET numbered == NumberedFrom(description.bearings, 1)
    IN  [n \in DOMAIN numbered |->
            [text |-> numbered[n], end |-> TextModeWrite(linesep)]]

NoFile == [exists |-> FALSE, lines |-> <<>>]
NoText == [exists |-> FALSE, text |-> ""]

\* bearings_file.open(MODE_WRITE) and writelines: the content is replaced
WriteBearings(files, description, unique_id) ==
    [files EXCEPT ![unique_id] = [exists |-> TRUE, lines |-> BearingLines(description)]]

\* as WriteDisclaimer, with MODE_APPEND: the text is added to what is there
WriteDisclaimer_Appending ==
    [exists |-> TRUE, text |-> disclaimer_file.text \o get_disclaimer]

\* disclaimer.open(MODE_WRITE) and write(get_disclaimer())
WriteDisclaimer == [exists |-> TRUE, text |-> get_disclaimer]

----------------------------------------------------------------------------
(* Inputs *)

Ids == {"ROAD_001", "ROAD_002"}

\* as Unset, a dict of two empty strings
Unset_EmptyDict == [kind |-> "dict", lat |-> "", lon |-> ""]

Unset == [kind |-> "str"]     \* the "" process_polyline starts a record with
Dms(lat, lon) == [kind |-> "dict", lat |-> lat, lon |-> lon]
Key(base_meridian, township_range) ==
    [base_meridian |-> base_meridian, township_range |-> township_range]
Entry(k, v) == [key |-> k, value |-> v]

DescRoad ==
    [traversal |-> <<Entry(Key("26", "T01S R01W"), <<2, 1, 2>>),
                     Entry(Key("30", "T02N R03E"), <<15, 14>>)>>,
     starting |-> Dms("40^45'30\"N", "111^52'15\"W"),
     ending |-> Dms("40^46'00\"N", "111^53'00\"W"),
     bearings |-> <<"N45^30'15\"E 328.1 ft", "N50^20'10\"E 250.3 ft">>]

DescUnknown ==
    [traversal |-> <<Entry(Key("98", "X"), <<7>>), Entry(Key("99", "X"), <<9, 8>>)>>,
     starting |-> Dms("0^00'0.00000\"N", "0^00'0.00000\"E"),
     ending |-> Dms("0^00'5.12340\"S", "0^06'0.00000\"W"),
     bearings |-> <<>>]

DescDegenerate ==
    [traversal |-> <<>>, starting |-> Unset, ending |-> Unset, bearings |-> <<>>]

Descriptions == {DescRoad, DescUnknown, DescDegenerate}

LegacyRow == <<"001", "start_value", "end_value", "path_value">>
OldRow == DataRow(DescRoad, "ROAD_000")

\* the summary target as the first call can find it
InitialTargets ==
    {[exists |-> FALSE, rows |-> <<>>]} \cup
    {[exists |-> TRUE, rows |-> r] :
        r \in {<<>>, <<fieldnames>>, <<fieldnames, OldRow>>, <<LegacyRow>>,
               <<<<"name", "value", "type">>, LegacyRow>>,
               <<<<"starting", "id", "traversal", "ending">>>>,
               <<<<"id", "starting", "ending">>>>, <<<<"id">>>>, << <<>> >>}}

ExpectedFieldnames ==
    {fieldnames, <<"id">>, <<"id", "starting", "ending">>,
     <<"starting", "id", "traversal", "ending">>}

Callers == 1..NumCallers
NoFrame == [description |-> DescDegenerate, unique_id |-> "", needs_header |-> FALSE]
NoProbe == [called |-> FALSE]
NoCalc == [fn |-> "none"]

----------------------------------------------------------------------------
(* Sequential use: every call runs from its first line to its last (or to   *)
(* the exception it raises) before the next one starts.                     *)

Init ==
    /\ summary \in InitialTargets
    /\ folder_exists \in BOOLEAN
    /\ linesep \in LineSeps
    /\ bearings_files = [id \in Ids |-> NoFile]
    /\ disclaimer_file = NoText
    /\ calls = <<>>
    /\ summary0 = summary
    /\ edits = <<>>
    /\ probe = NoProbe
    /\ serialized = TRUE
    /\ pc = [p \in Callers |-> "idle"]
    /\ frame = [p \in Callers |-> NoFrame]
    /\ calc = NoCalc

Call(description, unique_id, raised) ==
    [description |-> description, unique_id |-> unique_id, raised |-> raised]

\* as needs_header, the answer kept once a call has written to the target
needs_header_Cached ==
    /\ ~csv_has_header(summary, fieldnames)
    /\ \A i \in DOMAIN calls : calls[i].raised = "TypeError"

\* needs_header = not csv_has_header(csv_path, fieldnames), on the target as
\* the call finds it
needs_header == ~csv_has_header(summary, fieldnames)

\* as save_description_to, the bearings file written before the summary row
save_description_to_DetailFirst(description, unique_id) ==
    /\ Len(calls) < MaxCalls
    /\ IF ~(IsDict(description.starting) /\ IsDict(description.ending))
       THEN /\ calls' = Append(calls, Call(description, unique_id, "TypeError"))
            /\ UNCHANGED fileVars
       ELSE IF ~folder_exists
       THEN /\ calls' = Append(calls, Call(description, unique_id, "FileNotFoundError"))
            /\ UNCHANGED fileVars
       ELSE /\ bearings_files' = WriteBearings(bearings_files, description, unique_id)
            /\ summary' = AppendRows(summary,
                              RowsWritten(needs_header, description, unique_id))
            /\ disclaimer_file' = WriteDisclaimer
            /\ calls' = Append(calls, Call(description, unique_id, "none"))
            /\ UNCHANGED <<folder_exists, linesep>>
    /\ UNCHANGED <<summary0, edits, probe, procVars, calc>>

\* save_description_to(description, unique_id, survey123, bearings), whole
save_description_to(description, unique_id) ==
    /\ Len(calls) < MaxCalls
    /\ IF ~(IsDict(description.starting) /\ IsDict(description.ending))
       THEN \* TypeError while building starting_text / ending_text
            /\ calls' = Append(calls, Call(description, unique_id, "TypeError"))
            /\ UNCHANGED fileVars
       ELSE /\ summary' = AppendRows(summary,
                              RowsWritten(needs_header, description, unique_id))
            /\ IF ~folder_exists
               THEN \* bearings_file.open raises FileNotFoundError
                    /\ calls' = Append(calls,
                           Call(description, unique_id, "FileNotFoundError"))
                    /\ UNCHANGED <<folder_exists, linesep, bearings_files, disclaimer_file>>
               ELSE /\ bearings_files' =
                           WriteBearings(bearings_files, description, unique_id)
                    /\ disclaimer_file' = WriteDisclaimer
                    /\ calls' = Append(calls, Call(description, unique_id, "none"))
                    /\ UNCHANGED <<folder_exists, linesep>>
    /\ UNCHANGED <<summary0, edits, probe, procVars, calc>>

Persist == \E d \in Descriptions, id \in Ids : save_description_to(d, id)

\* csv_has_header(csv_path, expected_fieldnames) called on its own
HasHeader ==
    \E expected \in ExpectedFieldnames :
        /\ probe' = [called |-> TRUE, expected |-> expected, before |-> summary,
                     result |-> csv_has_header(summary, expected)]
        /\ UNCHANGED <<fileVars, calls, summary0, edits, procVars, calc>>

Next == Persist \/ HasHeader

Spec == Init /\ [][Next]_vars

----------------------------------------------------------------------------
(* The summary target is a file other programs can change between two      *)
(* calls: delete it, empty it, or put the header row at its top.           *)

MaxEdits == 1

EditKinds == {"delete", "empty", "header"}

Edited(file, kind) ==
    CASE kind = "delete" -> [exists |-> FALSE, rows |-> <<>>]
      [] kind = "empty" -> [exists |-> TRUE, rows |-> <<>>]
      [] kind = "header" ->
            [exists |-> TRUE,
             rows |-> <<fieldnames>> \o (IF file.exists THEN file.rows ELSE <<>>)]

Edit ==
    /\ Len(edits) < MaxEdits
    /\ \E kind \in EditKinds :
          /\ summary' = Edited(summary, kind)
          /\ edits' = Append(edits, [kind |-> kind, after |-> Len(calls)])
    /\ UNCHANGED <<folder_exists, linesep, bearings_files, disclaimer_file,
                   calls, summary0, probe, procVars, calc>>

NextExternal == Persist \/ Edit

SpecExternal == Init /\ [][NextExternal]_vars

----------------------------------------------------------------------------
(* Concurrent use: NumCallers callers run one save_description_to each on   *)
(* the same targets.  The function takes no lock; between its file          *)
(* operations another caller can run.  A run is serialized when the callers *)
(* themselves let no call start while another one is under way.             *)

Running == {"check", "append", "bearings", "disclaimer"}

InitRace ==
    /\ summary \in InitialTargets
    /\ folder_exists \in BOOLEAN
    /\ linesep \in LineSeps
    /\ bearings_files = [id \in Ids |-> NoFile]
    /\ disclaimer_file = NoText
    /\ calls = <<>>
    /\ summary0 = summary
    /\ edits = <<>>
    /\ probe = NoProbe
    /\ serialized \in BOOLEAN
    /\ pc = [p \in Callers |-> "idle"]
    /\ frame = [p \in Callers |-> NoFrame]
    /\ calc = NoCalc

\* lines 436-449: the texts of the row are built, nothing is read or written
Begin(p) ==
    /\ pc[p] = "idle"
    /\ serialized => \A q \in Callers : pc[q] \notin Running
    /\ \E description \in Descriptions, unique_id \in Ids :
          IF ~(IsDict(description.starting) /\ IsDict(description.ending))
          THEN /\ pc' = [pc EXCEPT ![p] = "raised"]
               /\ calls' = Append(calls, Call(description, unique_id, "TypeError"))
               /\ UNCHANGED frame
          ELSE /\ pc' = [pc EXCEPT ![p] = "check"]
               /\ frame' = [frame EXCEPT ![p] =
                      [description |-> description, unique_id |-> unique_id,
                       needs_header |-> FALSE]]
               /\ UNCHANGED calls
    /\ UNCHANGED <<fileVars, summary0, edits, probe, serialized, calc>>

\* line 452: needs_header = not csv_has_header(csv_path, fieldnames)
Check(p) ==
    /\ pc[p] = "check"
    /\ frame' = [frame EXCEPT ![p].needs_header = ~csv_has_header(summary, fieldnames)]
    /\ pc' = [pc EXCEPT ![p] = "append"]
    /\ UNCHANGED <<fileVars, calls, summary0, edits, probe, serialized, calc>>

\* lines 454-467: the with block; the buffered records reach the file when
\* it is closed
AppendSummary(p) ==
    /\ pc[p] = "append"
    /\ summary' = AppendRows(summary, RowsWritten(frame[p].needs_header,
                                 frame[p].description, frame[p].unique_id))
    /\ pc' = [pc EXCEPT ![p] = "bearings"]
    /\ UNCHANGED <<folder_exists, linesep, bearings_files, disclaimer_file,
                   calls, summary0, edits, probe, serialized, frame, calc>>

\* lines 469-474
BearingsStep(p) ==
    /\ pc[p] = "bearings"
    /\ IF ~folder_exists
       THEN /\ pc' = [pc EXCEPT ![p] = "raised"]
            /\ calls' = Append(calls, Call(frame[p].description, frame[p].unique_id,
                                           "FileNotFoundError"))
            /\ UNCHANGED bearings_files
       ELSE /\ bearings_files' = WriteBearings(bearings_files, frame[p].description,
                                               frame[p].unique_id)
            /\ pc' = [pc EXCEPT ![p] = "disclaimer"]
            /\ UNCHANGED calls
    /\ UNCHANGED <<summary, folder_exists, linesep, disclaimer_file,
                   summary0, edits, probe, serialized, frame, calc>>

\* lines 476-478
DisclaimerStep(p) ==
    /\ pc[p] = "disclaimer"
    /\ disclaimer_file' = WriteDisclaimer
    /\ pc' = [pc EXCEPT ![p] = "done"]
    /\ calls' = Append(calls, Call(frame[p].description, frame[p].unique_id, "none"))
    /\ UNCHANGED <<summary, folder_exists, linesep, bearings_files,
                   summary0, edits, probe, serialized, frame, calc>>

NextRace ==
    \E p \in Callers :
        Begin(p) \/ Check(p) \/ AppendSummary(p) \/ BearingsStep(p) \/ DisclaimerStep(p)

SpecRace == InitRace /\ [][NextRace]_vars

----------------------------------------------------------------------------
(* Numbers and their text.  The text of a number is a sequence of           *)
(* characters.  A float is held in fixed point, in the unit the function    *)
(* at hand resolves: tenths of a foot, thousandths of a second of arc for   *)
(* a bearing, millionths of a second of arc for a coordinate.               *)

Abs(n) == IF n < 0 THEN -n ELSE n

RECURSIVE Digits(_)
\* str(n) for an int n >= 0
Digits(n) == IF n < 10 THEN <<ToString(n)>> ELSE Digits(n \div 10) \o <<ToString(n % 10)>>

RECURSIVE ZeroFill(_, _)
\* the 0 flag of a format specification with a minimum width
ZeroFill(chars, width) ==
    IF Len(chars) >= width THEN chars ELSE ZeroFill(<<"0">> \o chars, width)

Text(chars) == JoinStr(chars, "")

\* n / d rounded to the nearest integer, a tie to the even one (d > 0)
RoundHalfEven(n, d) ==
    LET q == n \div d
        r == n % d
    IN  IF 2 * r < d THEN q
        ELSE IF 2 * r > d THEN q + 1
        ELSE IF q % 2 = 0 THEN q ELSE q + 1

RECURSIVE Log2(_)
\* floor(log2(n)) for an integer n >= 1
Log2(n) == IF n < 2 THEN 0 ELSE 1 + Log2(n \div 2)

RECURSIVE Log2Below(_)
\* floor(log2(n / 20)) for 1 <= n < 20
Log2Below(n) == IF n >= 20 THEN 0 ELSE Log2Below(2 * n) - 1

\* the binary exponent of n / 20, n >= 1
Exponent20(n) == IF n >= 20 THEN Log2(n \div 20) ELSE Log2Below(n)

Pow2Mod5(k) == CASE k % 4 = 0 -> 1 [] k % 4 = 1 -> 2 [] k % 4 = 2 -> 4 [] k % 4 = 3 -> 3

\* Where the double nearest to n / 20 lies: -1 below n / 20, 1 above it, 0 on
\* it.  With e the binary exponent of n / 20, the double is n * 2^(50-e) / 5
\* rounded to an integer (53 significant bits), so the remainder of
\* n * 2^(50-e) by 5 decides.
FloatSide(n) ==
    IF n = 0 THEN 0
    ELSE LET a == Abs(n)
             r == ((a % 5) * Pow2Mod5(50 - Exponent20(a))) % 5
             side == IF r = 0 THEN 0 ELSE IF r \in {1, 2} THEN -1 ELSE 1
         IN  IF n < 0 THEN -side ELSE side

\* round(num / den, 1), in tenths.  num / den is a double: an exact product
\* that is halfway between two tenths, (2t + 1) / 20, is a double only when
\* it ends in .25 or .75, and round sees the double, not the exact product.
Round1(num, den) ==
    LET t == (num * 10) \div den
        r == (num * 10) % den
        side == FloatSide(2 * t + 1)
    IN  IF 2 * r < den THEN t
        ELSE IF 2 * r > den THEN t + 1
        ELSE IF side < 0 THEN t
        ELSE IF side > 0 THEN t + 1
        ELSE IF t % 2 = 0 THEN t ELSE t + 1

\* str(x) for a float x of so many tenths
FloatChars(tenths) ==
    (IF tenths < 0 THEN <<"-">> ELSE <<>>)
        \o Digits(Abs(tenths) \div 10) \o <<".">> \o Digits(Abs(tenths) % 10)

----------------------------------------------------------------------------
(* meters_to_us_feet *)

\* as meters_to_us_feet, cutting the digits after the first decimal off
meters_to_us_feet_Truncated(meters) == (meters * 3937 * 10) \div 1200

\* round(meters * 3937 / 1200, 1), in tenths of a foot, for whole meters
meters_to_us_feet(meters) == Round1(meters * 3937, 1200)

----------------------------------------------------------------------------
(* calculate_grid_bearing *)

Degree == 3600 * 1000      \* one degree in thousandths of a second of arc

\* math.degrees(math.atan2(x, y)) for the (x, y) used as inputs, as the
\* platform's math library returns it, to the nearest unit
Atan2Table ==
    {<<0, 0, 0>>, <<0, 1, 0>>, <<1, 0, 324000000>>,
     <<0, -1, 648000000>>, <<-1, 0, -324000000>>, <<0, 100, 0>>,
     <<100, 0, 324000000>>, <<0, -100, 648000000>>, <<-100, 0, -324000000>>,
     <<1, 1, 162000000>>, <<1, -1, 486000000>>, <<-1, -1, -486000000>>,
     <<-1, 1, -162000000>>, <<100, 100, 162000000>>, <<50, -50, 486000000>>,
     <<-50, -50, -486000000>>, <<-50, 50, -162000000>>, <<1, 2, 95634184>>,
     <<2, 1, 228365816>>, <<3, 4, 132731632>>, <<-3, 4, -132731632>>,
     <<3, -4, 515268368>>, <<-3, -4, -515268368>>, <<5, -12, 566568486>>,
     <<-12, 5, -242568486>>, <<22, 7, 260459553>>, <<22, -7, 387540447>>,
     <<-22, -7, -387540447>>, <<-22, 7, -260459553>>, <<15, 29, 98459553>>,
     <<15, -29, 549540447>>, <<-15, -29, -549540447>>, <<-15, 29, -98459553>>,
     <<1000000, 1, 323999794>>, <<1000000, -1, 324000206>>, <<-1000000, 1, -323999794>>,
     <<-1000000, -1, -324000206>>, <<1, 1000000, 206>>, <<-1, 1000000, -206>>,
     <<1, -1000000, 647999794>>, <<-1, -1000000, -647999794>>,
     <<0, 4, 0>>, <<3, 0, 324000000>>, <<0, -4, 648000000>>, <<-3, 0, -324000000>>}
atan2_degrees(x, y) == (CHOOSE t \in Atan2Table : t[1] = x /\ t[2] = y)[3]

\* as Quadrant, with the first range closed at 90
Quadrant_Closed(azimuth) ==
    IF 0 <= azimuth /\ azimuth <= 90 * Degree
    THEN [angle |-> azimuth, y_direction |-> "N", x_direction |-> "E"]
    ELSE IF 90 * Degree <= azimuth /\ azimuth < 180 * Degree
    THEN [angle |-> 180 * Degree - azimuth, y_direction |-> "S", x_direction |-> "E"]
    ELSE IF 180 * Degree <= azimuth /\ azimuth < 270 * Degree
    THEN [angle |-> azimuth - 180 * Degree, y_direction |-> "S", x_direction |-> "W"]
    ELSE [angle |-> 360 * Degree - azimuth, y_direction |-> "N", x_direction |-> "W"]

\* the if/elif/else on azimuth
Quadrant(azimuth) ==
    IF 0 <= azimuth /\ azimuth < 90 * Degree
    THEN [angle |-> azimuth, y_direction |-> "N", x_direction |-> "E"]
    ELSE IF 90 * Degree <= azimuth /\ azimuth < 180 * Degree
    THEN [angle |-> 180 * Degree - azimuth, y_direction |-> "S", x_direction |-> "E"]
    ELSE IF 180 * Degree <= azimuth /\ azimuth < 270 * Degree
    THEN [angle |-> azimuth - 180 * Degree, y_direction |-> "S", x_direction |-> "W"]
    ELSE [angle |-> 360 * Degree - azimuth, y_direction |-> "N", x_direction |-> "W"]

\* as AngleToDms, carrying 60 seconds into the minutes and 60 minutes into
\* the degrees
AngleToDms_Carry(angle) ==
    LET total == RoundHalfEven(angle, 1000)
    IN  [degrees |-> total \div 3600, minutes |-> (total % 3600) \div 60,
         seconds |-> total % 60]

\* "Convert angle to DMS": int(angle), int(minutes_float), int(round(...))
AngleToDms(angle) ==
    LET degrees == angle \div Degree
        minutes_float == (angle - degrees * Degree) * 60
        minutes == minutes_float \div Degree
        seconds == RoundHalfEven((minutes_float - minutes * Degree) * 60, Degree)
    IN  [degrees |-> degrees, minutes |-> minutes, seconds |-> seconds]

\* the locals of calculate_grid_bearing when it returns
GridBearing(start_point, end_point, distance_meters) ==
    LET delta_x == end_point.X - start_point.X
        delta_y == end_point.Y - start_point.Y
        azimuth == (atan2_degrees(delta_x, delta_y) + 360 * Degree) % (360 * Degree)
        q == Quadrant(azimuth)
        dms == AngleToDms(q.angle)
        distance_feet == meters_to_us_feet(distance_meters)
    IN  [delta_x |-> delta_x, delta_y |-> delta_y, azimuth |-> azimuth,
         angle |-> q.angle, y_direction |-> q.y_direction, x_direction |-> q.x_direction,
         degrees |-> dms.degrees, minutes |-> dms.minutes, seconds |-> dms.seconds,
         distance_feet |-> distance_feet,
         bearing |-> <<q.y_direction>> \o Digits(dms.degrees) \o <<"^">>
                     \o Digits(dms.minutes) \o <<"'">> \o Digits(dms.seconds)
                     \o <<"\"", q.x_direction, " ">> \o FloatChars(distance_feet)
                     \o <<" ", "f", "t">>]

calculate_grid_bearing(start_point, end_point, distance_meters) ==
    GridBearing(start_point, end_point, distance_meters).bearing

----------------------------------------------------------------------------
(* decimal_degrees_to_dms *)

\* A coordinate in decimal degrees is held as its value times 3600: a sign,
\* whole seconds of arc and millionths of a second.
Coordinate(neg, degrees, minutes, seconds, micro) ==
    [neg |-> neg, sec |-> degrees * 3600 + minutes * 60 + seconds, micro |-> micro]

Negated(v) == [v EXCEPT !.neg = ~v.neg]

\* v >= 0 (true of -0.0)
NonNegative(v) == ~v.neg \/ (v.sec = 0 /\ v.micro = 0)

\* as lat_direction, with point.Y > 0
lat_direction_Strict(point) ==
    IF NonNegative(point.Y) /\ ~(point.Y.sec = 0 /\ point.Y.micro = 0) THEN "N" ELSE "S"

lat_direction(point) == IF NonNegative(point.Y) THEN "N" ELSE "S"

lon_direction(point) == IF NonNegative(point.X) THEN "E" ELSE "W"

\* format(seconds, ".5f"): the digits of the value rounded to 5 decimals
Fixed5(whole, micro) ==
    LET f == RoundHalfEven(micro, 10)
    IN  Digits(whole + f \div 100000) \o <<".">> \o ZeroFill(Digits(f % 100000), 5)

\* the two divmod on abs(value) * 3600: degrees and minutes as the int()
\* calls leave them, seconds as whole seconds and millionths
AxisParts(value) ==
    LET minutes_total == value.sec \div 60
    IN  [degrees |-> minutes_total \div 60, minutes |-> minutes_total % 60,
         seconds |-> value.sec % 60, micro |-> value.micro]

\* the f-string, for the parts of abs(value) and a direction letter
AxisDms(value, direction) ==
    LET parts == AxisParts(value)
    IN  Digits(parts.degrees) \o <<"^">> \o ZeroFill(Digits(parts.minutes), 2) \o <<"'">>
            \o ZeroFill(Fixed5(parts.seconds, parts.micro), 2) \o <<"\"", direction>>

decimal_degrees_to_dms(point) ==
    <<AxisDms(point.Y, lat_direction(point)), AxisDms(point.X, lon_direction(point))>>

----------------------------------------------------------------------------
(* The pure functions, each called on inputs of its own *)

MaxMeters == 300

Meters == (-MaxMeters)..MaxMeters

Deltas == {<<t[1], t[2]>> : t \in Atan2Table}
StartPoints == {[X |-> 0, Y |-> 0], [X |-> 424500, Y |-> 4515000]}
Distances == {0, 1, 100, 180}

Coordinates ==
    {Coordinate(neg, c[1], c[2], c[3], c[4]) :
        neg \in BOOLEAN,
        c \in {<<0, 0, 0, 0>>, <<0, 0, 5, 123400>>, <<0, 0, 9, 999996>>,
               <<0, 6, 0, 0>>, <<1, 0, 59, 999996>>, <<33, 52, 7, 680000>>,
               <<40, 45, 31, 680000>>, <<111, 52, 15, 600000>>}}

InitCalc ==
    /\ summary = [exists |-> FALSE, rows |-> <<>>]
    /\ folder_exists = FALSE
    /\ linesep = "\n"
    /\ bearings_files = [id \in Ids |-> NoFile]
    /\ disclaimer_file = NoText
    /\ calls = <<>>
    /\ summary0 = summary
    /\ edits = <<>>
    /\ probe = NoProbe
    /\ serialized = TRUE
    /\ pc = [p \in Callers |-> "idle"]
    /\ frame = [p \in Callers |-> NoFrame]
    /\ calc = NoCalc

Feet ==
    \E meters \in Meters :
        /\ calc' = [fn |-> "meters_to_us_feet", meters |-> meters,
                    result |-> meters_to_us_feet(meters)]
        /\ UNCHANGED <<fileVars, calls, summary0, edits, probe, procVars>>

Bearing ==
    \E start_point \in StartPoints, delta \in Deltas, distance_meters \in Distances :
        LET end_point == [X |-> start_point.X + delta[1], Y |-> start_point.Y + delta[2]]
        IN  /\ calc' = [fn |-> "calculate_grid_bearing", start_point |-> start_point,
                        end_point |-> end_point, distance_meters |-> distance_meters,
                        locals |-> GridBearing(start_point, end_point, distance_meters),
                        result |-> calculate_grid_bearing(start_point, end_point,
                                                          distance_meters)]
            /\ UNCHANGED <<fileVars, calls, summary0, edits, probe, procVars>>

ToDms ==
    \E x \in Coordinates, y \in Coordinates :
        /\ calc' = [fn |-> "decimal_degrees_to_dms", point |-> [X |-> x, Y |-> y],
                    locals |-> <<AxisParts(y), AxisParts(x)>>,
                    result |-> decimal_degrees_to_dms([X |-> x, Y |-> y])]
        /\ UNCHANGED <<fileVars, calls, summary0, edits, probe, procVars>>

NextCalc == Feet \/ Bearing \/ ToDms

SpecCalc == InitCalc /\ [][NextCalc]_vars

----------------------------------------------------------------------------
(* format_traversal and the traversal column, on mappings of their own *)

MaxEntries == 2

TraversalKeys ==
    {Key("26", "T01S R01W"), Key("30", "T01S R01W"), Key("27", "X"), Key("99", "X")}
SectionLists == {<<>>, <<5>>, <<2, 1, 2>>, <<15, 14>>, <<3, 1, 2>>}

\* the dicts of at most MaxEntries entries: the raw keys of a dict are distinct
TraversalDicts ==
    {t \in UNION {[1..n -> {Entry(k, v) : k \in TraversalKeys, v \in SectionLists}] :
                     n \in 0..MaxEntries} :
        \A i, j \in DOMAIN t : t[i].key = t[j].key => i = j}

\* a record of process_polyline that carries the traversal
DescWith(traversal_dict) == [DescRoad EXCEPT !.traversal = traversal_dict]

InitTraversal ==
    /\ summary = [exists |-> FALSE, rows |-> <<>>]
    /\ folder_exists = FALSE
    /\ linesep = "\n"
    /\ bearings_files = [id \in Ids |-> NoFile]
    /\ disclaimer_file = NoText
    /\ calls = <<>>
    /\ summary0 = summary
    /\ edits = <<>>
    /\ probe = NoProbe
    /\ serialized = TRUE
    /\ pc = [p \in Callers |-> "idle"]
    /\ frame = [p \in Callers |-> NoFrame]
    /\ calc \in {[fn |-> "input", traversal_dict |-> t] : t \in TraversalDicts}

\* format_traversal(traversal_dict)
Format ==
    /\ calc.fn = "input"
    /\ calc' = [fn |-> "format_traversal", traversal_dict |-> calc.traversal_dict,
                result |-> format_traversal(calc.traversal_dict)]
    /\ UNCHANGED <<fileVars, calls, summary0, edits, probe, procVars>>

\* the row save_description_to hands to the writer for a record with that
\* traversal
Row ==
    /\ calc.fn = "format_traversal"
    /\ calc' = [fn |-> "row", traversal_dict |-> calc.traversal_dict,
                formatted_traversal |-> calc.result,
                row |-> DataRow(DescWith(calc.traversal_dict), "ROAD_001")]
    /\ UNCHANGED <<fileVars, calls, summary0, edits, probe, procVars>>

NextTraversal == Format \/ Row

SpecTraversal == InitTraversal /\ [][NextTraversal]_vars

----------------------------------------------------------------------------
(* process_polyline *)

\* the intersect cursor's rows (base_meridian, label, section), grouped by
\* traversal.setdefault(f"{base_meridian}-{label}", []).append(section)
RECURSIVE GroupSections(_, _)
GroupSections(rows, traversal) ==
    IF rows = <<>> THEN traversal
    ELSE LET key == Key(rows[1][1], rows[1][2])
             sections == IF \E i \in DOMAIN traversal : traversal[i].key = key
                         THEN (CHOOSE e \in Range(traversal) : e.key = key).value
                         ELSE <<>>
         IN  GroupSections(Tail(rows), DictSet(traversal, key, Append(sections, rows[1][3])))

get_plss_traversal(rows) == GroupSections(rows, <<>>)

\* The vertices of the polylines, in the projected system (meters).
VertexA == [X |-> 424500, Y |-> 4515000]
VertexB == [X |-> 424503, Y |-> 4515004]
VertexC == [X |-> 424500, Y |-> 4515004]
Vertices == {VertexA, VertexB, VertexC}

\* project_point is ArcGIS's projection to WGS 84: here a table giving each
\* vertex its geographic coordinate
project_point(point) ==
    CASE point = VertexA ->
             [X |-> Coordinate(TRUE, 111, 52, 15, 600000), Y |-> Coordinate(FALSE, 40, 45, 31, 680000)]
      [] point = VertexB ->
             [X |-> Coordinate(TRUE, 111, 52, 15, 400000), Y |-> Coordinate(FALSE, 40, 45, 31, 800000)]
      [] point = VertexC ->
             [X |-> Coordinate(TRUE, 111, 52, 15, 600000), Y |-> Coordinate(FALSE, 40, 45, 31, 800000)]

\* segment.length of the two-point polyline ArcGIS builds: the distance of
\* the two vertices, a whole number of meters for the vertices above
SegmentLength(first_point, last_point) ==
    LET dx == last_point.X - first_point.X
        dy == last_point.Y - first_point.Y
    IN  CHOOSE n \in 0..(Abs(dx) + Abs(dy)) : n * n = dx * dx + dy * dy

\* {"lat": lat_dms, "lon": lon_dms} of a vertex
DmsOf(point) ==
    LET dms == decimal_degrees_to_dms(project_point(point))
    IN  Dms(Text(dms[1]), Text(dms[2]))

\* the bearing of the segment from last_point to point
SegmentBearing(last_point, point) ==
    Text(calculate_grid_bearing(last_point, point, SegmentLength(last_point, point)))

RECURSIVE WalkPath_EndAtOnlyVertex(_, _, _)
\* as WalkPath, with "if index == len(path) - 1" tested before "index == 0"
WalkPath_EndAtOnlyVertex(result, path, n) ==
    IF n > Len(path) THEN result
    ELSE LET coordinate == DmsOf(path[n])
             ended == IF n = Len(path) THEN [result EXCEPT !.ending = coordinate]
                      ELSE result
         IN  IF n = 1
             THEN WalkPath_EndAtOnlyVertex([ended EXCEPT !.starting = coordinate], path, n + 1)
             ELSE WalkPath_EndAtOnlyVertex(
                      [ended EXCEPT !.bearings = Append(@, SegmentBearing(path[n - 1], path[n]))],
                      path, n + 1)

RECURSIVE WalkPath(_, _, _)
\* the inner loop, from the n-th vertex of the path on (index == n - 1);
\* last_point is the vertex before, it is set at index 0 of every path
WalkPath(result, path, n) ==
    IF n > Len(path) THEN result
    ELSE LET coordinate == DmsOf(path[n])
         IN  IF n = 1
             THEN \* index == 0: starting, continue
                  WalkPath([result EXCEPT !.starting = coordinate], path, n + 1)
             ELSE LET ended == IF n = Len(path)
                               THEN [result EXCEPT !.ending = coordinate]
                               ELSE result
                  IN  WalkPath(
                          [ended EXCEPT !.bearings =
                              Append(@, SegmentBearing(path[n - 1], path[n]))],
                          path, n + 1)

RECURSIVE WalkPaths(_, _)
\* the outer loop: for path in polyline
WalkPaths(result, paths) ==
    IF paths = <<>> THEN result
    ELSE WalkPaths(WalkPath(result, paths[1], 1), Tail(paths))

RECURSIVE Chained(_)
Chained(paths) == IF paths = <<>> THEN <<>> ELSE paths[1] \o Chained(Tail(paths))

\* as process_polyline, last_point kept from one path to the next: the
\* vertices of all paths walked as one path
process_polyline_Joined(polyline) ==
    WalkPaths([traversal |-> get_plss_traversal(polyline.sections),
               starting |-> Unset, ending |-> Unset, bearings |-> <<>>],
              IF polyline.paths = <<>> THEN <<>> ELSE <<Chained(polyline.paths)>>)

\* process_polyline(polyline, plss_sections, plss_schema); polyline.sections
\* are the rows the intersection with plss_sections yields
process_polyline(polyline) ==
    WalkPaths([traversal |-> get_plss_traversal(polyline.sections),
               starting |-> Unset, ending |-> Unset, bearings |-> <<>>],
              polyline.paths)

MaxPaths == 2
MaxVertices == 3

\* a path visits no vertex twice
Paths ==
    {path \in UNION {[1..n -> Vertices] : n \in 0..MaxVertices} :
        \A i, j \in DOMAIN path : path[i] = path[j] => i = j}
SectionRows ==
    {<<>>,
     <<<<"26", "T01S R01W", 2>>, <<"30", "T02N R03E", 15>>, <<"26", "T01S R01W", 1>>,
       <<"26", "T01S R01W", 2>>>>}
Polylines ==
    {[paths |-> p, sections |-> s] :
        p \in UNION {[1..n -> Paths] : n \in 0..MaxPaths}, s \in SectionRows}

InitPolyline ==
    /\ summary = [exists |-> FALSE, rows |-> <<>>]
    /\ folder_exists = FALSE
    /\ linesep = "\n"
    /\ bearings_files = [id \in Ids |-> NoFile]
    /\ disclaimer_file = NoText
    /\ calls = <<>>
    /\ summary0 = summary
    /\ edits = <<>>
    /\ probe = NoProbe
    /\ serialized = TRUE
    /\ pc = [p \in Callers |-> "idle"]
    /\ frame = [p \in Callers |-> NoFrame]
    /\ calc \in {[fn |-> "input", polyline |-> p] : p \in Polylines}

Process ==
    /\ calc.fn = "input"
    /\ calc' = [fn |-> "process_polyline", polyline |-> calc.polyline,
                result |-> process_polyline(calc.polyline)]
    /\ UNCHANGED <<fileVars, calls, summary0, edits, probe, procVars>>

NextPolyline == Process

SpecPolyline == InitPolyline /\ [][NextPolyline]_vars

----------------------------------------------------------------------------
(* The record process_polyline returns, handed to save_description_to *)

InitRecord ==
    /\ summary = [exists |-> FALSE, rows |-> <<>>]
    /\ folder_exists \in BOOLEAN
    /\ linesep = "\n"
    /\ bearings_files = [id \in Ids |-> NoFile]
    /\ disclaimer_file = NoText
    /\ calls = <<>>
    /\ summary0 = summary
    /\ edits = <<>>
    /\ probe = NoProbe
    /\ serialized = TRUE
    /\ pc = [p \in Callers |-> "idle"]
    /\ frame = [p \in Callers |-> NoFrame]
    /\ calc \in {[fn |-> "input", polyline |-> p] : p \in Polylines}

\* save_description_to(process_polyline(polyline, ...), unique_id, ...)
PersistRecord ==
    /\ calc.fn = "process_polyline"
    /\ \E unique_id \in Ids : save_description_to(calc.result, unique_id)

NextRecord == Process \/ PersistRecord

SpecRecord == InitRecord /\ [][NextRecord]_vars

----------------------------------------------------------------------------
(* The summary target: header rows and data rows *)

Last(s) == s[Len(s)]
IsHeader(row) == row = fieldnames
IsDataRow(row) == Len(row) = 4 /\ row[1] \in Ids
HeaderCount(rows) == Cardinality({i \in DOMAIN rows : IsHeader(rows[i])})
DataRows(rows) == SelectSeq(rows, IsDataRow)
RowIds(rows) == [i \in DOMAIN rows |-> rows[i][1]]
RowsOf(file) == IF file.exists THEN file.rows ELSE <<>>

Succeeded(call) == call.raised = "none"
AllSucceeded == \A i \in DOMAIN calls : Succeeded(calls[i])
\* a call that got as far as the with block of the summary target
Wrote(call) == call.raised # "TypeError"
CallIds(cs) == [i \in DOMAIN cs |-> cs[i].unique_id]

NoMatchingHeader(file) ==
    ~file.exists \/ file.rows = <<>> \/ file.rows[1] # fieldnames
AbsentOrEmpty(file) == ~file.exists \/ file.rows = <<>>

\* C1: for a target that starts absent, empty or with a first row other
\* than the header, after n >= 1 successful calls made one after the other
\* the target holds exactly one header row and n data rows.
C1_OneHeaderAfterCalls ==
    (NoMatchingHeader(summary0) /\ calls # <<>> /\ AllSucceeded)
        => /\ HeaderCount(summary.rows) = 1
           /\ Len(DataRows(summary.rows)) = Len(calls)

\* C2: after a call on a pre-existing, non-empty target whose first row is
\* not the header, the first row of the target is the header and every
\* pre-existing row comes after it.
C2_HeaderPrepended ==
    (/\ summary0.exists /\ summary0.rows # <<>> /\ summary0.rows[1] # fieldnames
     /\ calls # <<>> /\ AllSucceeded)
        => /\ summary.rows[1] = fieldnames
           /\ SubSeq(summary.rows, 2, 1 + Len(summary0.rows)) = summary0.rows

\* C3: on a target that starts absent or empty, calls that the callers
\* serialize never leave more than one header row; calls that run
\* concurrently can (the witness C3_RaceTwoHeaders).
C3_SerializedOneHeader ==
    (serialized /\ AbsentOrEmpty(summary0)) => HeaderCount(RowsOf(summary)) <= 1

\* both callers evaluated the header check before either appended
C3_RaceTwoHeaders ==
    /\ ~serialized /\ AbsentOrEmpty(summary0)
    /\ \A p \in {1, 2} : pc[p] \notin {"idle", "check", "append"} /\ frame[p].needs_header
    /\ HeaderCount(summary.rows) = 2

\* C4: a successful call keeps the rows of the target as they were and in
\* place, and adds one data row, for its feature id, as the last row (after
\* a header row when it wrote one); so the data rows written are in call
\* order, one per call, the same id twice when it was persisted twice.
C4_AppendStep ==
    [][(calls' # calls /\ Succeeded(Last(calls')))
         => LET old == RowsOf(summary)
                new == summary'.rows
                added == SubSeq(new, Len(old) + 1, Len(new))
            IN  /\ summary'.exists
                /\ Len(new) > Len(old)
                /\ SubSeq(new, 1, Len(old)) = old
                /\ IsDataRow(Last(new)) /\ Last(new)[1] = Last(calls').unique_id
                /\ Len(DataRows(added)) = 1
                /\ \A i \in 1..(Len(added) - 1) : IsHeader(added[i])]_vars

C4_CallOrder ==
    RowIds(DataRows(RowsOf(summary))) =
        RowIds(DataRows(RowsOf(summary0))) \o CallIds(SelectSeq(calls, Wrote))

C5_Result ==
    probe.called =>
        /\ probe.result <=>
              /\ probe.before.exists
              /\ Len(probe.before.rows) >= 1
              /\ Len(probe.before.rows[1]) = Len(probe.expected)
              /\ \A i \in 1..Len(probe.expected) :
                    probe.before.rows[1][i] = probe.expected[i]
        /\ AbsentOrEmpty(probe.before) => ~probe.result

\* C5: every csv_has_header call returns what C5_Result says and leaves the
\* file it read as it was.
C5_HasHeaderIff ==
    /\ []C5_Result
    /\ [][probe' # probe => (probe'.before = summary /\ summary' = summary)]_vars

C5_HeaderFound ==
    /\ probe.called /\ probe.result
    /\ probe.expected = fieldnames /\ Len(probe.before.rows) >= 2

----------------------------------------------------------------------------
(* The pure functions: what a call returned *)

IsFeet == calc.fn = "meters_to_us_feet"
IsBearing == calc.fn = "calculate_grid_bearing"
IsDms == calc.fn = "decimal_degrees_to_dms"

StartsWith(chars, prefix) ==
    Len(chars) >= Len(prefix) /\ SubSeq(chars, 1, Len(prefix)) = prefix
IndexOf(chars, c) ==
    CHOOSE i \in DOMAIN chars : chars[i] = c /\ \A j \in 1..(i - 1) : chars[j] # c
\* the characters after the first a and before the first b
Between(chars, a, b) == SubSeq(chars, IndexOf(chars, a) + 1, IndexOf(chars, b) - 1)
AllButLast(chars) == SubSeq(chars, 1, Len(chars) - 1)

\* C6: the quadrant follows the azimuth table ([0,90) N..E angle = azimuth,
\* [90,180) S..E 180 - azimuth, [180,270) S..W azimuth - 180, [270,360) N..W
\* 360 - azimuth), hence the signs of dx and dy; due north is N 0 E, due
\* east S 90 E, due south S 0 W, due west N 90 W, coincident points N0^0'0"E.
C6_QuadrantTable ==
    IsBearing =>
        LET l == calc.locals
            az == l.azimuth
            dx == calc.end_point.X - calc.start_point.X
            dy == calc.end_point.Y - calc.start_point.Y
            Is(y, x) == l.y_direction = y /\ l.x_direction = x
                        /\ calc.result[1] = y
                        /\ calc.result[IndexOf(calc.result, "\"") + 1] = x
        IN  /\ 0 <= az /\ az < 360 * Degree
            /\ az < 90 * Degree => Is("N", "E") /\ l.angle = az
            /\ (90 * Degree <= az /\ az < 180 * Degree)
                   => Is("S", "E") /\ l.angle = 180 * Degree - az
            /\ (180 * Degree <= az /\ az < 270 * Degree)
                   => Is("S", "W") /\ l.angle = az - 180 * Degree
            /\ 270 * Degree <= az => Is("N", "W") /\ l.angle = 360 * Degree - az
            /\ (dx > 0 /\ dy > 0) => Is("N", "E")
            /\ (dx > 0 /\ dy < 0) => Is("S", "E")
            /\ (dx < 0 /\ dy < 0) => Is("S", "W")
            /\ (dx < 0 /\ dy > 0) => Is("N", "W")
            /\ (dx = 0 /\ dy > 0) => StartsWith(calc.result, <<"N", "0", "^", "0", "'", "0", "\"", "E">>)
            /\ (dx > 0 /\ dy = 0) => StartsWith(calc.result, <<"S", "9", "0", "^", "0", "'", "0", "\"", "E">>)
            /\ (dx = 0 /\ dy < 0) => StartsWith(calc.result, <<"S", "0", "^", "0", "'", "0", "\"", "W">>)
            /\ (dx < 0 /\ dy = 0) => StartsWith(calc.result, <<"N", "9", "0", "^", "0", "'", "0", "\"", "W">>)
            /\ (dx = 0 /\ dy = 0) => StartsWith(calc.result, <<"N", "0", "^", "0", "'", "0", "\"", "E">>)

C6_DueWest ==
    /\ IsBearing
    /\ calc.end_point.X < calc.start_point.X /\ calc.end_point.Y = calc.start_point.Y
    /\ StartsWith(calc.result, <<"N", "9", "0", "^", "0", "'", "0", "\"", "W">>)

\* C7: degrees is the floor of the angle, minutes the floor of the rest in
\* minutes, seconds the rest of that rounded to a whole second; degrees is in
\* 0..90, minutes in 0..59, seconds in 0..60, and the text carries these
\* three as they are: 60 seconds stay 60 seconds.
C7_NoCarry ==
    IsBearing =>
        LET l == calc.locals
            rest == l.angle - l.degrees * Degree - l.minutes * 60000
        IN  /\ l.degrees \in 0..90 /\ l.minutes \in 0..59 /\ l.seconds \in 0..60
            /\ l.degrees * Degree <= l.angle /\ l.angle < (l.degrees + 1) * Degree
            /\ 0 <= rest /\ rest < 60000
            /\ Abs(l.seconds * 1000 - rest) <= 500
            /\ rest > 59500 => l.seconds = 60
            /\ SubSeq(calc.result, 2, IndexOf(calc.result, "^") - 1) = Digits(l.degrees)
            /\ Between(calc.result, "^", "'") = Digits(l.minutes)
            /\ Between(calc.result, "'", "\"") = Digits(l.seconds)

C7_SecondsSixty ==
    /\ IsBearing
    /\ calc.locals.seconds = 60 /\ calc.locals.minutes = 20
    /\ Between(calc.result, "^", "'") = <<"2", "0">>
    /\ Between(calc.result, "'", "\"") = <<"6", "0">>

\* C8 as claimed: the result is meters * 3937 / 1200 rounded to the nearest
\* tenth, a tie to the even tenth; 0 gives 0.0, 1 gives 3.3, 100 gives 328.1;
\* rounding the result again gives the result.
C8_HalfEvenExact ==
    IsFeet =>
        /\ calc.result = RoundHalfEven(calc.meters * 3937 * 10, 1200)
        /\ calc.meters = 0 => calc.result = 0
        /\ calc.meters = 1 => calc.result = 33
        /\ calc.meters = 100 => calc.result = 3281
        /\ Round1(calc.result, 10) = calc.result

\* C8 as amended: the result is a tenth nearest to meters * 3937 / 1200; when
\* the exact product is halfway between two tenths either of the two, the
\* even one if the product is a double (it ends in .25 or .75); the same for
\* negative inputs, mirrored; 0 gives 0.0, 1 gives 3.3, 100 gives 328.1;
\* rounding the result again gives the result.
C8_NearestTenth ==
    IsFeet =>
        LET exact == calc.meters * 3937 * 10
        IN  /\ Abs(calc.result * 1200 - exact) <= 600
            /\ (exact % 1200 = 600 /\ exact % 3000 = 0) => calc.result % 2 = 0
            /\ meters_to_us_feet(-calc.meters) = -calc.result
            /\ calc.meters = 0 => calc.result = 0
            /\ calc.meters = 1 => calc.result = 33
            /\ calc.meters = 100 => calc.result = 3281
            /\ Round1(calc.result, 10) = calc.result

\* 180 m is 590.55 ft exactly; the double is below it and 590.5 comes out
C8_TieNotEven == IsFeet /\ calc.meters = 180 /\ calc.result = 5905

\* C9: the latitude text ends with N when latitude >= 0 and with S
\* otherwise, the longitude text with E when longitude >= 0 and with W
\* otherwise, zero with N and E; what comes before the letter is the same
\* for v and -v.
C9_Suffix ==
    IsDms =>
        LET lat == calc.result[1]
            lon == calc.result[2]
            y == calc.point.Y
            x == calc.point.X
            IsZero(v) == v.sec = 0 /\ v.micro = 0
            mirrored == decimal_degrees_to_dms([X |-> Negated(x), Y |-> Negated(y)])
        IN  /\ Last(lat) = IF ~y.neg \/ IsZero(y) THEN "N" ELSE "S"
            /\ Last(lon) = IF ~x.neg \/ IsZero(x) THEN "E" ELSE "W"
            /\ IsZero(y) => Last(lat) = "N"
            /\ IsZero(x) => Last(lon) = "E"
            /\ AllButLast(lat) = AllButLast(mirrored[1])
            /\ AllButLast(lon) = AllButLast(mirrored[2])

C9_ZeroNorthAndWest ==
    /\ IsDms
    /\ calc.point.Y.sec = 0 /\ calc.point.Y.micro = 0
    /\ calc.point.X.neg /\ calc.point.X.sec > 0
    /\ Last(calc.result[1]) = "N" /\ Last(calc.result[2]) = "W"

\* C10: in both texts the seconds have two or more digits before the
\* decimal point (a single digit is zero-padded) and five digits after it.
C10_SecondsPadded ==
    IsDms =>
        \A i \in {1, 2} :
            /\ Len(Between(calc.result[i], "'", ".")) >= 2
            /\ Len(Between(calc.result[i], ".", "\"")) = 5

----------------------------------------------------------------------------
(* format_traversal: what C11 to C13 speak of *)

StrictlyIncreasing(s) == \A i, j \in DOMAIN s : i < j => s[i] < s[j]

\* the display name the three branches give a meridian code
DisplayName(code) ==
    CASE code = "26" -> "Salt Lake Base and Meridian"
      [] code = "30" -> "Uintah Special Meridian"
      [] OTHER -> "Unknown Meridian"

DisplayKey(key) == DisplayName(key.base_meridian) \o " " \o key.township_range

\* the entries of a dict under one display key
Sharing(traversal_dict, display) ==
    {i \in DOMAIN traversal_dict : DisplayKey(traversal_dict[i].key) = display}

Formatted == calc.fn = "format_traversal"

\* C11: for every input mapping, every entry format_traversal returns holds a
\* strictly increasing section list (so no number twice) with exactly the
\* numbers of the input list of the entry it was made from, which is the
\* last input entry under that display key; an input entry that shares its
\* display key with no other has its entry in the result; the empty mapping
\* gives the empty mapping.
C11_SortedUnique ==
    Formatted =>
        LET input == calc.traversal_dict
            output == calc.result
        IN  /\ \A e \in Range(output) :
                /\ StrictlyIncreasing(e.value)
                /\ Sharing(input, e.key) # {}
                /\ LET last == CHOOSE i \in Sharing(input, e.key) :
                                   \A j \in Sharing(input, e.key) : j <= i
                   IN  Range(e.value) = Range(input[last].value)
            /\ \A i \in DOMAIN input :
                   Sharing(input, DisplayKey(input[i].key)) = {i} =>
                       \E e \in Range(output) :
                           /\ e.key = DisplayKey(input[i].key)
                           /\ Range(e.value) = Range(input[i].value)
            /\ input = <<>> => output = <<>>

\* a list given unsorted and with a number twice came back as 1, 2, and a
\* list given in descending order came back ascending
C11_DuplicateRemoved ==
    /\ Formatted
    /\ Len(calc.traversal_dict) = 2
    /\ calc.traversal_dict[1].value = <<2, 1, 2>>
    /\ calc.traversal_dict[2].value = <<15, 14>>
    /\ Len(calc.result) = 2
    /\ calc.result[1].value = <<1, 2>>
    /\ calc.result[2].value = <<14, 15>>

Segment(e) ==
    e.key \o ": Sections "
        \o JoinStr([n \in DOMAIN e.value |-> ToString(e.value[n])], ", ")

\* C13: the traversal column of the row is, for the formatted mapping, one
\* segment "{display key}: Sections {numbers ascending, no number twice,
\* separated by ', '}" per display key, the segments in the order of the
\* mapping and joined by " | "; an empty traversal gives the empty string.
C13_TraversalColumn ==
    calc.fn = "row" =>
        LET m == calc.formatted_traversal
        IN  /\ calc.row[4] = JoinStr([i \in DOMAIN m |-> Segment(m[i])], " | ")
            /\ \A i \in DOMAIN m : StrictlyIncreasing(m[i].value)
            /\ calc.traversal_dict = <<>> => calc.row[4] = ""

\* a row was built from two townships, the sections given unsorted
C13_TwoSegments ==
    /\ calc.fn = "row"
    /\ calc.traversal_dict = <<Entry(Key("26", "T01S R01W"), <<2, 1, 2>>),
                               Entry(Key("30", "T01S R01W"), <<15, 14>>)>>
    /\ calc.row[4] = "Salt Lake Base and Meridian T01S R01W: Sections 1, 2"
                         \o " | Uintah Special Meridian T01S R01W: Sections 14, 15"

----------------------------------------------------------------------------
(* The bearings files and the disclaimer: what C14, C15 and C19 speak of *)

\* the last successful call for an id, 0 when there is none
LastSuccess(id) ==
    LET done == {i \in DOMAIN calls : Succeeded(calls[i]) /\ calls[i].unique_id = id}
    IN  IF done = {} THEN 0 ELSE CHOOSE i \in done : \A j \in done : j <= i

\* one line "{n}. {bearing}" per bearing, n from 1, each ended by the
\* platform's line terminator
NumberedLines(bearings) ==
    [n \in DOMAIN bearings |->
        [text |-> ToString(n) \o ". " \o bearings[n], end |-> linesep]]

\* C14: after a successful save_description_to for an id, the file
\* "{id}_bearings.txt" holds exactly one line per bearing of the record, the
\* n-th being "{n}. {bearing}" ended by the platform line terminator, in the
\* order of the bearings and nothing else (an empty file for no bearings);
\* a later call for the id replaces the content; the files of the other
\* ids stay as they are (each file follows the last call for its own id).
C14_DetailFile ==
    \A id \in Ids :
        IF LastSuccess(id) = 0 THEN bearings_files[id] = NoFile
        ELSE bearings_files[id] =
                 [exists |-> TRUE,
                  lines |-> NumberedLines(calls[LastSuccess(id)].description.bearings)]

\* C15: after any number n >= 1 of successful calls the disclaimer file
\* holds exactly one copy of the disclaimer text.
C15_OneDisclaimer ==
    (\E i \in DOMAIN calls : Succeeded(calls[i]))
        => disclaimer_file = [exists |-> TRUE, text |-> get_disclaimer]

\* three calls succeeded and the disclaimer is there once
C15_AfterThreeCalls ==
    /\ Len(calls) = 3
    /\ AllSucceeded
    /\ disclaimer_file.exists
    /\ disclaimer_file.text = get_disclaimer

\* C19: the summary row is written before the bearings file and the
\* bearings file before the disclaimer, with no rollback: a call whose
\* bearings file cannot be opened raises that error, leaves its row in the
\* summary target (after the rows that were there, with the header when the
\* call needed one) and writes neither bearings file nor disclaimer; a call
\* that succeeds has written all three.
C19_NoRollback ==
    [][calls' # calls =>
         LET call == Last(calls')
             old == RowsOf(summary)
             new == summary'.rows
         IN  /\ call.raised = "FileNotFoundError" =>
                    /\ summary'.exists
                    /\ Len(new) > Len(old)
                    /\ SubSeq(new, 1, Len(old)) = old
                    /\ IsDataRow(Last(new)) /\ Last(new)[1] = call.unique_id
                    /\ Len(new) - Len(old) = (IF NoMatchingHeader(summary) THEN 2 ELSE 1)
                    /\ bearings_files' = bearings_files
                    /\ disclaimer_file' = disclaimer_file
             /\ call.raised = "none" =>
                    /\ Len(new) > Len(old)
                    /\ bearings_files'[call.unique_id].exists
                    /\ disclaimer_file'.exists]_vars

\* the bearings folder is missing: the first call raised, its row and the
\* header are in the summary target, no disclaimer was written
C19_RowWithoutDisclaimer ==
    /\ Len(calls) = 1
    /\ calls[1].raised = "FileNotFoundError"
    /\ ~summary0.exists
    /\ summary = [exists |-> TRUE,
                  rows |-> <<fieldnames, DataRow(calls[1].description, calls[1].unique_id)>>]
    /\ ~disclaimer_file.exists
    /\ \A id \in Ids : ~bearings_files[id].exists

----------------------------------------------------------------------------
(* The header check on a target that other programs change: C20 *)

\* C20: every call decides on the header from the target as it finds it,
\* nothing is remembered from earlier calls: a call that writes adds the
\* header row before its data row exactly when the target is absent, empty
\* or starts with another row at that moment - so again after the target
\* was deleted or emptied, and not when the header was put at its top.
C20_HeaderRechecked ==
    [][(calls' # calls /\ Wrote(Last(calls'))) =>
         LET old == RowsOf(summary)
             call == Last(calls')
             row == DataRow(call.description, call.unique_id)
         IN  summary'.rows =
                 IF old # <<>> /\ old[1] = fieldnames
                 THEN old \o <<row>>
                 ELSE old \o <<fieldnames, row>>]_vars

\* two calls wrote, the target was deleted between them: it holds the
\* header and the second call's row
C20_HeaderAfterDelete ==
    /\ Len(calls) = 2
    /\ Wrote(calls[1]) /\ Wrote(calls[2])
    /\ edits = <<[kind |-> "delete", after |-> 1]>>
    /\ summary = [exists |-> TRUE,
                  rows |-> <<fieldnames, DataRow(calls[2].description, calls[2].unique_id)>>]

----------------------------------------------------------------------------
(* process_polyline: what C16 to C18 speak of *)

Processed == calc.fn = "process_polyline"

RECURSIVE SegmentCount(_)
\* the sum over the paths of max(vertexCount - 1, 0)
SegmentCount(paths) ==
    IF paths = <<>> THEN 0
    ELSE (IF Len(paths[1]) > 1 THEN Len(paths[1]) - 1 ELSE 0) + SegmentCount(Tail(paths))

\* the paths with a segment, that is with two vertices or more
WithSegment(paths) == {p \in DOMAIN paths : Len(paths[p]) >= 2}

\* C16: process_polyline returns one bearing per pair of consecutive
\* vertices of a path, the paths in order and the pairs of a path in order:
\* the bearing of the i-th pair of path p stands after the bearings of the
\* paths before p, the bearings are SegmentCount many, and none is from the
\* last vertex of a path to the first of the next; paths of fewer than two
\* vertices give none.
C16_BearingPerSegment ==
    Processed =>
        LET paths == calc.polyline.paths
            bearings == calc.result.bearings
        IN  /\ Len(bearings) = SegmentCount(paths)
            /\ \A p \in DOMAIN paths : \A i \in 1..(Len(paths[p]) - 1) :
                   bearings[SegmentCount(SubSeq(paths, 1, p - 1)) + i] =
                       SegmentBearing(paths[p][i], paths[p][i + 1])

\* a path of three vertices and a path of two gave three bearings: two for
\* the first path, one for the second, none from C to B between them
C16_TwoPaths ==
    /\ Processed
    /\ calc.polyline.paths = <<<<VertexA, VertexB, VertexC>>, <<VertexB, VertexA>>>>
    /\ calc.result.bearings =
           <<"N36^52'12\"E 16.4 ft", "N90^0'0\"W 9.8 ft", "S36^52'12\"W 16.4 ft">>

\* C17: starting is the coordinate of the first vertex of the first path,
\* whatever the number of paths that follow.
C17_StartOfFirstPath ==
    (Processed /\ calc.polyline.paths # <<>> /\ calc.polyline.paths[1] # <<>>)
        => calc.result.starting = DmsOf(calc.polyline.paths[1][1])

\* C18 as stated: for several paths, ending is the coordinate of the last
\* vertex of the last path.
C18_EndOfLastPath ==
    (Processed /\ Len(calc.polyline.paths) >= 2 /\ Last(calc.polyline.paths) # <<>>)
        => calc.result.ending = DmsOf(Last(Last(calc.polyline.paths)))

\* C18: ending is written at the last vertex of every path of two vertices
\* or more, one path after the other, and at no other vertex: it is the
\* coordinate of the last vertex of the last such path, and the "" the
\* record starts with when there is no such path.
C18_EndOfLastSegment ==
    Processed =>
        LET paths == calc.polyline.paths
            long == WithSegment(paths)
        IN  IF long = {} THEN calc.result.ending = Unset
            ELSE LET p == CHOOSE i \in long : \A j \in long : j <= i
                 IN  calc.result.ending = DmsOf(Last(paths[p]))

\* the last path has one vertex: ending is still the last vertex of the
\* path before
C18_LoneVertexLast ==
    /\ Processed
    /\ calc.polyline.paths = <<<<VertexA, VertexB>>, <<VertexC>>>>
    /\ calc.result.ending = DmsOf(VertexB)
    /\ calc.result.ending # DmsOf(VertexC)

----------------------------------------------------------------------------
(* decimal_degrees_to_dms: the split into degrees, minutes and seconds (C21) *)

\* C21: for each axis the absolute value v is split into degrees >= 0,
\* minutes in 0..59 and seconds with 0 <= seconds < 60 such that
\* degrees * 3600 + minutes * 60 + seconds = v * 3600, and the seconds as
\* rendered with 5 decimals are below 60 as well.
C21_SecondsBelowSixty ==
    IsDms =>
        \A i \in {1, 2} :
            LET parts == calc.locals[i]
                value == IF i = 1 THEN calc.point.Y ELSE calc.point.X
            IN  /\ parts.degrees >= 0
                /\ parts.minutes \in 0..59
                /\ parts.seconds \in 0..59 /\ parts.micro \in 0..999999
                /\ parts.degrees * 3600 + parts.minutes * 60 + parts.seconds = value.sec
                /\ parts.micro = value.micro
                /\ \E n \in 0..59 :
                       Between(calc.result[i], "'", ".") \in {Digits(n), ZeroFill(Digits(n), 2)}

----------------------------------------------------------------------------
(* format_traversal on raw keys that share a display key (C22) *)

\* C22: format_traversal keeps one entry per input entry: the result has as
\* many keys as the input, and every section number of an input entry is in
\* the result under that entry's display key, also when two raw keys with
\* the same label have codes that map to the same meridian name.
C22_NoEntryLost ==
    Formatted =>
        /\ Len(calc.result) = Len(calc.traversal_dict)
        /\ \A i \in DOMAIN calc.traversal_dict :
               \E e \in Range(calc.result) :
                   /\ e.key = DisplayKey(calc.traversal_dict[i].key)
                   /\ Range(calc.traversal_dict[i].value) \subseteq Range(e.value)

----------------------------------------------------------------------------
(* The record of a degenerate polyline, persisted (C23) *)

Degenerate(polyline) == WithSegment(polyline.paths) = {}

====
